---- MODULE Spec2Model ----
(***************************************************************************)
(* Call-session lifecycle of the telephony / voice-AI bridge:              *)
(* the prompt composer, the tool manager, the corpus gate, the session     *)
(* negotiator (createUltravoxCall) and the HTTP handlers of both           *)
(* telephony providers, with each handler split at its await points.       *)
(*                                                                         *)
(* Text is modelled as a sequence of tokens <<kind, value>>; the empty     *)
(* sequence is the empty (falsy) string.  A string option that the code    *)
(* only tests for truthiness is "" when it is unset.                       *)
(***************************************************************************)
EXTENDS Integers, Sequences, FiniteSets, TLC

VARIABLES env, callPrompts, callAgentNames, reqs, putGen, initiated,
          loader,      \* config/tools.js: the tool slots and the registry built from them
          looked,      \* the last lookup of the tool manager
          setup,       \* scripts/setup-tools.js: the run of the setup script
          composed,    \* applications of the persona transform
          stream       \* the connection of the media WebSocket channel

vars == <<env, callPrompts, callAgentNames, reqs, putGen, initiated,
          loader, looked, setup, composed, stream>>

\* the state outside the server's HTTP handlers
unitVars == <<loader, looked, setup, composed, stream>>

----------------------------------------------------------------------------
(* Bounds *)

MaxReq == 2
MaxPuts == 2
MaxSlots == 3          \* tool slots read at load (the code reads 10)
MaxPromptLen == 2      \* tokens of a prompt handed to the persona transform
MaxFilterLen == 2      \* names in a tool-name filter handed to a lookup
MaxFrames == 2         \* frames received on one WebSocket connection

Reqs == 1..MaxReq
Keys == {"k1", "k2"}
CallIds == {"c1", "c2"}

----------------------------------------------------------------------------
(* Optional values: a JavaScript value that may be undefined / null *)

None == [def |-> FALSE, v |-> <<>>]
Some(x) == [def |-> TRUE, v |-> x]

SeqsUpTo(S, n) == UNION {[1..k -> S] : k \in 0..n}

RECURSIVE Flatten(_)
Flatten(ss) == IF ss = <<>> THEN <<>> ELSE Head(ss) \o Flatten(Tail(ss))

SeqMap(Op(_), s) == [i \in 1..Len(s) |-> Op(s[i])]

Range(s) == {s[i] : i \in 1..Len(s)}

\* Array.prototype.filter(Boolean) on the items of a split string
IsTruthy(x) == x # ""
FilterBoolean(items) == SelectSeq(items, IsTruthy)

----------------------------------------------------------------------------
(* Static configuration *)

AI_NAME == "Jimothy"
AI_VOICE == "default-voice"
AI_TEMPERATURE == "0.3"

INBOUND_SYSTEM_PROMPT == << <<"txt", "inbound">> >>
OUTBOUND_SYSTEM_PROMPT == << <<"txt", "outbound">>, <<"ph", "AI_NAME">> >>

AGENT_PREPROMPT == << <<"txt", "Your name is">>, <<"ph", "AGENT_NAME">>,
                      <<"txt", "adhere to the following prompt:">> >>

----------------------------------------------------------------------------
(* Tool registry: config/tools.js.  A slot is the group of environment      *)
(* variables ULTRAVOX_TOOL_<i>_*; a JSON-valued variable is unset, holds    *)
(* JSON text (of an array of n items) or holds text that is not JSON.       *)

Unset == [kind |-> "unset", n |-> 0]
Malformed == [kind |-> "malformed", n |-> 0]
JsonText(n) == [kind |-> "json", n |-> n]

NoSlot == [NAME |-> "", DESCRIPTION |-> "", RESPONSE_SCHEMA |-> Unset,
           EXAMPLES |-> Unset, PARAMS |-> Unset]

NoTool == [name |-> "", description |-> "", examples |-> 0]

\* null without a name; throws when a JSON.parse throws; else the definition
parseToolFromEnv(slot) ==
    IF slot.NAME = "" THEN [kind |-> "null", tool |-> NoTool]
    ELSE IF \/ slot.RESPONSE_SCHEMA.kind = "malformed"
            \/ slot.EXAMPLES.kind = "malformed"
            \/ slot.PARAMS.kind = "malformed"
         THEN [kind |-> "throws", tool |-> NoTool]
         ELSE [kind |-> "tool",
               tool |-> [name |-> slot.NAME, description |-> slot.DESCRIPTION,
                         examples |-> IF slot.EXAMPLES.kind = "json" THEN slot.EXAMPLES.n ELSE 0]]

\* tools[tool.name] = tool: a new key is appended, a known key keeps its place
SetTool(reg, tool) ==
    IF \E i \in 1..Len(reg) : reg[i].name = tool.name
    THEN [i \in 1..Len(reg) |-> IF reg[i].name = tool.name THEN tool ELSE reg[i]]
    ELSE Append(reg, tool)

\* the loop over the slots at module load; an exception ends the load
RECURSIVE LoadFrom(_, _, _)
LoadFrom(slots, i, reg) ==
    IF i > Len(slots) THEN [slots |-> slots, state |-> "loaded", tools |-> reg]
    ELSE LET parsed == parseToolFromEnv(slots[i])
         IN  CASE parsed.kind = "throws" -> [slots |-> slots, state |-> "crashed", tools |-> <<>>]
               [] parsed.kind = "null" -> LoadFrom(slots, i + 1, reg)
               [] parsed.kind = "tool" -> LoadFrom(slots, i + 1, SetTool(reg, parsed.tool))

LoadTools(slots) == LoadFrom(slots, 1, <<>>)

\* the exported registry, in insertion order
tools == loader.tools

ToolNamed(name) == CHOOSE i \in 1..Len(tools) : tools[i].name = name
HasTool(name) == \E i \in 1..Len(tools) : tools[i].name = name
RegistryNames == [i \in 1..Len(tools) |-> tools[i].name]

----------------------------------------------------------------------------
(* Prompt composer *)

ReplaceToken(p, ph, val) == [i \in 1..Len(p) |-> IF p[i] = ph THEN val ELSE p[i]]

\* what String.prototype.replace puts in place of the match ph when the
\* replacement string is name: "$&" stands for the matched text itself, and a
\* name that is the text {AI_NAME} is that placeholder again
Replacement(name, ph) ==
    CASE name = "$&" -> ph
      [] name = "{AI_NAME}" -> <<"ph", "AI_NAME">>
      [] OTHER -> <<"name", name>>

\* variant: the preamble is put after the prompt
processSystemPrompt_PreambleLast(prompt, agentName) ==
    LET nameToUse == IF agentName # "" THEN agentName ELSE AI_NAME
        preprompt == ReplaceToken(AGENT_PREPROMPT, <<"ph", "AGENT_NAME">>,
                                  Replacement(nameToUse, <<"ph", "AGENT_NAME">>))
        processedPrompt == prompt \o << <<"txt", "\n\n">> >> \o preprompt
    IN  ReplaceToken(processedPrompt, <<"ph", "AI_NAME">>,
                     Replacement(nameToUse, <<"ph", "AI_NAME">>))

processSystemPrompt(prompt, agentName) ==
    LET nameToUse == IF agentName # "" THEN agentName ELSE AI_NAME
        preprompt == ReplaceToken(AGENT_PREPROMPT, <<"ph", "AGENT_NAME">>,
                                  Replacement(nameToUse, <<"ph", "AGENT_NAME">>))
        processedPrompt == preprompt \o << <<"txt", "\n\n">> >> \o prompt
    IN  ReplaceToken(processedPrompt, <<"ph", "AI_NAME">>,
                     Replacement(nameToUse, <<"ph", "AI_NAME">>))

ToolInfo(tool) ==
    << <<"desc", tool.name>> >> \o [i \in 1..tool.examples |-> <<"example", tool.name>>]

IncludesName(names, tool) == tool.name \in Range(names)

enhancePromptWithToolInfo(basePrompt, toolNames) ==
    LET names == IF toolNames.def THEN toolNames.v ELSE <<>>
        Wanted(tool) == IncludesName(names, tool)
        toolsToInclude == IF Len(names) > 0 THEN SelectSeq(tools, Wanted) ELSE tools
        toolsInfo == Flatten(SeqMap(ToolInfo, toolsToInclude))
        guidelines == env.ULTRAVOX_TOOL_GUIDELINES
    IN  IF Len(toolsToInclude) = 0 THEN basePrompt
        ELSE IF guidelines # ""
             THEN basePrompt \o toolsInfo \o << <<"guidelines", guidelines>> >>
             ELSE basePrompt \o toolsInfo

\* (process.env.ULTRAVOX_CALL_TOOLS || '').split(',').filter(Boolean)
CallToolsOrEmpty == IF env.ULTRAVOX_CALL_TOOLS.def THEN FilterBoolean(env.ULTRAVOX_CALL_TOOLS.v) ELSE <<>>

getSystemPrompt(isOutbound, agentName) ==
    LET prompt == IF isOutbound THEN OUTBOUND_SYSTEM_PROMPT ELSE INBOUND_SYSTEM_PROMPT
        toolNames == CallToolsOrEmpty
        useTools == env.ULTRAVOX_USE_TOOLS = "true" \/ Len(toolNames) > 0
    IN  processSystemPrompt(
            IF useTools THEN enhancePromptWithToolInfo(prompt, Some(toolNames)) ELSE prompt,
            agentName)

----------------------------------------------------------------------------
(* Tool manager *)

ToolRef(name) == [kind |-> "ref", name |-> name, corpus_id |-> ""]
TempTool(name) == [kind |-> "temporary", name |-> tools[ToolNamed(name)].name, corpus_id |-> ""]

getToolsByName(toolNames) ==
    IF ~toolNames.def \/ Len(toolNames.v) = 0
    THEN SeqMap(ToolRef, RegistryNames)
    ELSE SeqMap(ToolRef, SelectSeq(toolNames.v, HasTool))

getTemporaryTools(toolNames) ==
    LET toolsToInclude == IF toolNames.def THEN SelectSeq(toolNames.v, HasTool) ELSE RegistryNames
    IN  SeqMap(TempTool, toolsToInclude)

getToolsForCall(toolNames) ==
    IF env.ULTRAVOX_USE_PERMANENT_TOOLS = "true"
    THEN getToolsByName(toolNames)
    ELSE getTemporaryTools(toolNames)

----------------------------------------------------------------------------
(* Knowledge corpus gate *)

CorpusIds == {"G", "X", "undefined"}
\* what the status endpoint answers for one corpus:
\*   READY      JSON body with stats.status = CORPUS_STATUS_READY
\*   PENDING    JSON body with another status
\*   ERROR_JSON an error response whose body is JSON without stats
\*   MALFORMED  a body that is not JSON (an HTML error page, a truncated body)
\*   NETERR     the request emits 'error'
CorpusReplies == {"READY", "PENDING", "ERROR_JSON", "MALFORMED", "NETERR"}

\* the corpus named in the status URL: `${ULTRAVOX_CORPUS_ID}` of the template string
VerifiedCorpusId == IF env.ULTRAVOX_CORPUS_ID # "" THEN env.ULTRAVOX_CORPUS_ID ELSE "undefined"

\* variant: corpus.stats.status read without the optional chaining
SettleCorpusStatus_NoOptionalChain(reply) ==
    CASE reply = "READY" -> "true"
      [] reply = "PENDING" -> "false"
      [] reply \in {"ERROR_JSON", "MALFORMED", "NETERR"} -> "reject"

\* how the promise settles: "true" / "false" are resolutions, "reject" is a rejection
SettleCorpusStatus(reply) ==
    CASE reply = "READY" -> "true"
      [] reply \in {"PENDING", "ERROR_JSON"} -> "false"
      [] reply = "MALFORMED" -> "reject"
      [] reply = "NETERR" -> "reject"

\* verifyCorpusStatus() declares no parameter: the argument of the call is dropped
verifyCorpusStatus(corpusIdArg, world) == SettleCorpusStatus(world[VerifiedCorpusId])

----------------------------------------------------------------------------
(* Session negotiator: createUltravoxCall *)

NoOpts == [systemPrompt |-> <<>>, isOutbound |-> FALSE, voiceId |-> "", corpusId |-> "",
           toolNames |-> None, agentName |-> "", firstSpeaker |-> ""]

NoCfg == [systemPrompt |-> <<>>, voice |-> "", temperature |-> "", firstSpeaker |-> "",
          selectedTools |-> <<>>]

HangUpTool == ToolRef("hangUp")
QueryCorpusTool(id) == [kind |-> "ref", name |-> "queryCorpus", corpus_id |-> id]
ToolInstructions == <<"instructions", "tools">>

BaseCallConfig(opts) ==
    [systemPrompt |-> IF opts.systemPrompt # <<>>
                      THEN processSystemPrompt(opts.systemPrompt, opts.agentName)
                      ELSE getSystemPrompt(opts.isOutbound, opts.agentName),
     voice |-> IF opts.voiceId # "" THEN opts.voiceId ELSE AI_VOICE,
     temperature |-> AI_TEMPERATURE,
     firstSpeaker |-> IF opts.isOutbound THEN env.OUTBOUND_FIRST_SPEAKER
                                         ELSE env.INBOUND_FIRST_SPEAKER,
     selectedTools |-> <<>>]

UseTools(opts) ==
    IF ~opts.toolNames.def THEN env.ULTRAVOX_USE_TOOLS # "false"
                           ELSE Len(opts.toolNames.v) > 0

\* toolNames || process.env.ULTRAVOX_CALL_TOOLS?.split(',').filter(Boolean)
ToolNamesOrEnv(opts) ==
    IF opts.toolNames.def THEN opts.toolNames
    ELSE IF env.ULTRAVOX_CALL_TOOLS.def THEN Some(FilterBoolean(env.ULTRAVOX_CALL_TOOLS.v))
    ELSE None

\* variant: the end-call reference is added only next to a registry tool
AddTools_HangUpWithTools(cfg, opts) ==
    IF UseTools(opts)
    THEN LET tl == getToolsForCall(ToolNamesOrEnv(opts))
         IN  IF Len(tl) > 0
             THEN [cfg EXCEPT !.selectedTools = Append(@ \o tl, HangUpTool),
                              !.systemPrompt =
                                  IF env.ULTRAVOX_TOOL_GUIDELINES # ""
                                  THEN enhancePromptWithToolInfo(@, opts.toolNames)
                                  ELSE @]
             ELSE cfg
    ELSE cfg

AddTools(cfg, opts) ==
    IF UseTools(opts)
    THEN LET tl == getToolsForCall(ToolNamesOrEnv(opts))
             withTools == IF Len(tl) > 0
                          THEN [cfg EXCEPT !.selectedTools = @ \o tl,
                                           !.systemPrompt =
                                               IF env.ULTRAVOX_TOOL_GUIDELINES # ""
                                               THEN enhancePromptWithToolInfo(@, opts.toolNames)
                                               ELSE @]
                          ELSE cfg
         IN  [withTools EXCEPT !.selectedTools = Append(@, HangUpTool)]
    ELSE cfg

EffectiveCorpusId(opts) == IF opts.corpusId # "" THEN opts.corpusId ELSE env.ULTRAVOX_CORPUS_ID

\* variant: the reference is attached whenever the check resolved
AddCorpus_AnyResolution(cfg, opts, settled) ==
    IF settled # "reject"
    THEN [cfg EXCEPT !.selectedTools = Append(@, QueryCorpusTool(EffectiveCorpusId(opts)))]
    ELSE cfg

AddCorpus(cfg, opts, settled) ==
    IF settled = "true"
    THEN [cfg EXCEPT !.selectedTools = Append(@, QueryCorpusTool(EffectiveCorpusId(opts)))]
    ELSE cfg

AddToolInstructions(cfg) ==
    IF Len(cfg.selectedTools) > 0
    THEN [cfg EXCEPT !.systemPrompt = Append(@, ToolInstructions)]
    ELSE cfg

\* what the backend answers to the session request:
\*   ok         JSON body with a joinUrl
\*   html       an HTML page with the text <!doctype html> or <html>
\*   htmlOther  an HTML page without either text, as <!DOCTYPE html><html lang="en">
\*   unparsable a body that is neither HTML nor JSON
\*   nojoin     JSON body without joinUrl
\*   neterr     the request emits 'error'
SessionReplies == {"ok", "html", "htmlOther", "unparsable", "nojoin", "neterr"}

SettleSession(reply) ==
    CASE reply = "ok" -> "resolved"
      [] reply = "html" -> "Received HTML error page from Ultravox API"
      [] reply \in {"htmlOther", "unparsable"} -> "Failed to parse response"
      [] reply = "nojoin" -> "Ultravox API did not return a joinUrl"
      [] reply = "neterr" -> "request error"

----------------------------------------------------------------------------
(* Requests in flight.  One record per HTTP request (or direct call of the  *)
(* negotiator); pc is the await the request is suspended at.                *)

NoRes == [status |-> 0, kind |-> "", say |-> FALSE, stream |-> 0, msg |-> ""]

IdleReq ==
    [h |-> "", pc |-> "idle", key |-> "", ev |-> "",
     opts |-> NoOpts, cfg |-> NoCfg,
     submitted |-> FALSE,     \* the session request was written to the backend
     joinUrl |-> 0,           \* join URL the negotiation resolved with (0: none)
     err |-> "",              \* message the negotiation rejected with
     answers |-> 0,           \* answer commands sent to the provider
     streams |-> 0,           \* streaming_start commands sent to the provider
     streamUrl |-> 0,         \* stream_url of the streaming_start command
     streamResult |-> "",     \* the provider's answer to streaming_start
     dest |-> "",             \* destinationNumber of an /outgoing request
     calls |-> 0,             \* calls the provider was asked to originate
     callUrl |-> 0,           \* stream target of the originated call
     callResult |-> "",       \* the provider's answer to the origination
     res |-> NoRes, nres |-> 0,
     \* history of what the request observed
     ctx |-> "", gen |-> 0, reply |-> "",
     chkId |-> "", chkReply |-> "", chkSettled |-> "", effId |-> "", effReply |-> ""]

\* a request arrives: requests take the slots in their order of arrival
Arrives(r) ==
    /\ reqs[r].pc = "idle"
    /\ \A p \in Reqs : p < r => reqs[p].pc # "idle"

Respond(q, response) == [q EXCEPT !.res = response, !.nres = @ + 1]

TwimlConnect(url) == [status |-> 200, kind |-> "twiml", say |-> FALSE, stream |-> url, msg |-> ""]
TwimlSay(text) == [status |-> 200, kind |-> "twiml", say |-> TRUE, stream |-> 0, msg |-> text]
Json(status, text) == [status |-> status, kind |-> "json", say |-> FALSE, stream |-> 0, msg |-> text]

\* createUltravoxCall up to its first await: the corpus check when a corpus is
\* in effect, else the session request itself
BeginNegotiate(q, opts) ==
    LET cfg == AddTools(BaseCallConfig(opts), opts)
    IN  IF EffectiveCorpusId(opts) # ""
        THEN [q EXCEPT !.opts = opts, !.cfg = cfg, !.pc = "corpus_wait"]
        ELSE [q EXCEPT !.opts = opts, !.cfg = AddToolInstructions(cfg),
                       !.pc = "session_wait", !.submitted = TRUE]

\* the corpus check settles; the session request is written
AfterCorpusCheck(q, world) ==
    LET settled == verifyCorpusStatus(EffectiveCorpusId(q.opts), world)
    IN  [q EXCEPT !.cfg = AddToolInstructions(AddCorpus(q.cfg, q.opts, settled)),
                  !.pc = "session_wait", !.submitted = TRUE,
                  !.chkId = VerifiedCorpusId, !.chkReply = world[VerifiedCorpusId],
                  !.chkSettled = settled,
                  !.effId = EffectiveCorpusId(q.opts),
                  !.effReply = world[EffectiveCorpusId(q.opts)]]

CorpusReply(r) ==
    /\ reqs[r].pc = "corpus_wait"
    /\ \E world \in [CorpusIds -> env.corpusReplies] :
          reqs' = [reqs EXCEPT ![r] = AfterCorpusCheck(reqs[r], world)]
    /\ UNCHANGED <<env, callPrompts, callAgentNames, putGen, initiated, unitVars>>

----------------------------------------------------------------------------
(* Handler continuations after the negotiation settled (q.joinUrl / q.err) *)

\* direct call of the negotiator
CallAfterSession(q) == [q EXCEPT !.pc = "done"]

\* variant: the JSON error of the Telnyx branch is sent to Twilio as well
IncomingTwilioAfterSession_JsonError(q) ==
    IF q.joinUrl # 0
    THEN [Respond(q, TwimlConnect(q.joinUrl)) EXCEPT !.pc = "done"]
    ELSE [Respond(q, Json(500, "Failed to process incoming call")) EXCEPT !.pc = "done"]

\* /incoming, Twilio
IncomingTwilioAfterSession(q) ==
    IF q.joinUrl # 0
    THEN [Respond(q, TwimlConnect(q.joinUrl)) EXCEPT !.pc = "done"]
    ELSE [Respond(q, TwimlSay("Sorry, there was an error processing your call."))
            EXCEPT !.pc = "done"]

\* variant: the promise chain of the webhook acknowledges as well
FinishStreaming_AlwaysResponds(q) ==
    [Respond(q, Json(200, "Call answered and streaming started")) EXCEPT !.pc = "done"]

\* the handler after setupTelnyxMediaStreaming settled: /incoming swallows a
\* failure and acknowledges, the webhook's promise chain only logs
FinishStreaming(q) ==
    IF q.h = "incoming"
    THEN [Respond(q, Json(200, "Call answered and streaming started")) EXCEPT !.pc = "done"]
    ELSE [q EXCEPT !.pc = "done"]

\* variant: the stream target is the server's own websocket, not the join URL
LocalWsUrl == MaxReq + 1
StartStreaming_LocalUrl(q, streamUrl) ==
    [q EXCEPT !.streams = @ + 1, !.streamUrl = LocalWsUrl, !.pc = "stream_wait"]

\* setupTelnyxMediaStreaming up to its await: throws without a stream URL,
\* else sends streaming_start
StartStreaming(q, streamUrl) ==
    IF streamUrl = 0
    THEN FinishStreaming([q EXCEPT !.streamResult = "Stream URL is required"])
    ELSE [q EXCEPT !.streams = @ + 1, !.streamUrl = streamUrl, !.pc = "stream_wait"]

\* /incoming, Telnyx, call.answered
IncomingTelnyxAfterSession(q) ==
    IF q.joinUrl # 0
    THEN StartStreaming(q, q.joinUrl)
    ELSE [Respond(q, Json(500, "Failed to process incoming call")) EXCEPT !.pc = "done"]

\* /telnyx-webhook, call.answered: the promise chain
WebhookAfterSession(q) ==
    IF q.joinUrl # 0
    THEN StartStreaming(q, q.joinUrl)
    ELSE [q EXCEPT !.pc = "done"]

\* /direct-connect/:callId
ConnectAfterSession(q) ==
    IF q.joinUrl # 0
    THEN [Respond(q, TwimlConnect(q.joinUrl)) EXCEPT !.pc = "done"]
    ELSE [Respond(q, TwimlSay("Sorry, we were unable to connect to our AI assistant at this time. Please try again later."))
            EXCEPT !.pc = "done"]

\* variant: the call is originated whether or not a join URL was obtained
OutgoingAfterSession_NoJoinUrlTest(q) ==
    [q EXCEPT !.calls = @ + 1, !.callUrl = q.joinUrl, !.pc = "originate_wait"]

\* /outgoing: throws without a join URL, else asks the provider for the call
\* with the join URL as its stream target
OutgoingAfterSession(q) ==
    IF q.joinUrl # 0
    THEN [q EXCEPT !.calls = @ + 1, !.callUrl = q.joinUrl, !.pc = "originate_wait"]
    ELSE [Respond(q, Json(500, "Failed to initiate call")) EXCEPT !.pc = "done"]

AfterSession(q) ==
    CASE q.h = "call" -> CallAfterSession(q)
      [] q.h = "outgoing" -> OutgoingAfterSession(q)
      [] q.h = "incoming" /\ env.VOICE_PROVIDER = "telnyx" -> IncomingTelnyxAfterSession(q)
      [] q.h = "incoming" /\ env.VOICE_PROVIDER # "telnyx" -> IncomingTwilioAfterSession(q)
      [] q.h = "webhook" -> WebhookAfterSession(q)
      [] q.h = "connect" -> ConnectAfterSession(q)

\* delete app.locals.callPrompts[callId]; delete app.locals.callAgentNames[callId]
DeleteKey(store, k) == [store EXCEPT !.m[k] = IF store.def THEN <<>> ELSE @]
DeleteName(store, k) == [store EXCEPT !.m[k] = IF store.def THEN "" ELSE @]

\* variant: the stored context is removed when the negotiation settled
RemovesContext_WhenSettled(q) == q.h = "connect"

\* /direct-connect removes the stored context after the join URL test passed
RemovesContext(q) == q.h = "connect" /\ q.joinUrl # 0

\* the backend answers the session request and the awaiting handler goes on
SessionReply(r) ==
    /\ reqs[r].pc = "session_wait"
    /\ \E reply \in env.sessionReplies :
          LET settled == SettleSession(reply)
              q == [reqs[r] EXCEPT !.reply = reply,
                                   !.joinUrl = IF settled = "resolved" THEN r ELSE 0,
                                   !.err = IF settled = "resolved" THEN "" ELSE settled]
              removes == RemovesContext(q)
          IN  /\ reqs' = [reqs EXCEPT ![r] = AfterSession(q)]
              /\ callPrompts' = IF removes THEN DeleteKey(callPrompts, q.key) ELSE callPrompts
              /\ callAgentNames' = IF removes THEN DeleteName(callAgentNames, q.key)
                                              ELSE callAgentNames
    /\ UNCHANGED <<env, putGen, initiated, unitVars>>

----------------------------------------------------------------------------
(* Call-session state: app.locals.callPrompts / app.locals.callAgentNames   *)

UndefinedPrompts == [def |-> FALSE, m |-> [k \in Keys |-> <<>>]]
UndefinedNames == [def |-> FALSE, m |-> [k \in Keys |-> ""]]

StoredPrompts == { << <<"txt", "stored">>, <<"ph", "AI_NAME">> >> }
PersonaNames == {"", "Ann"}

RECURSIVE SumOver(_, _)
SumOver(f, S) == IF S = {} THEN 0 ELSE LET x == CHOOSE y \in S : TRUE
                                      IN  f[x] + SumOver(f, S \ {x})
PutsSoFar == SumOver(putGen, Keys)

\* put(key, context): the deferred-connect origination stores the context
Put(k, prompt, agent) ==
    /\ PutsSoFar < MaxPuts
    /\ callPrompts' = [def |-> TRUE, m |-> [callPrompts.m EXCEPT ![k] = prompt]]
    /\ callAgentNames' = IF agent # "" \/ callAgentNames.def
                         THEN [def |-> TRUE, m |-> [callAgentNames.m EXCEPT ![k] = agent]]
                         ELSE callAgentNames
    /\ putGen' = [putGen EXCEPT ![k] = @ + 1]
    /\ UNCHANGED <<env, reqs, initiated, unitVars>>

ConnectApology ==
    TwimlSay("Sorry, we were unable to connect to our AI assistant at this time. Please try again later.")

\* variant: the handler goes on to the negotiation without testing the prompt
ConnectStart_NoGuard(r, k) ==
    /\ Arrives(r)
    /\ LET found == callPrompts.def /\ callPrompts.m[k] # <<>>
           q == [IdleReq EXCEPT !.h = "connect", !.key = k, !.gen = putGen[k],
                                !.ctx = IF found THEN "found"
                                        ELSE IF putGen[k] > 0 THEN "consumed" ELSE "never"]
       IN  reqs' = [reqs EXCEPT ![r] =
                BeginNegotiate(q, [NoOpts EXCEPT !.systemPrompt = callPrompts.m[k],
                                                 !.agentName = callAgentNames.m[k],
                                                 !.firstSpeaker = "FIRST_SPEAKER_AGENT"])]
    /\ UNCHANGED <<env, callPrompts, callAgentNames, putGen, initiated, unitVars>>

\* /direct-connect/:callId up to the await of createUltravoxCall
ConnectStart(r, k) ==
    /\ Arrives(r)
    /\ LET found == callPrompts.def /\ callPrompts.m[k] # <<>>
           systemPrompt == callPrompts.m[k]
           agentName == IF callAgentNames.def THEN callAgentNames.m[k] ELSE ""
           q == [IdleReq EXCEPT !.h = "connect", !.key = k, !.gen = putGen[k],
                                !.ctx = IF found THEN "found"
                                        ELSE IF putGen[k] > 0 THEN "consumed" ELSE "never"]
       IN  reqs' = [reqs EXCEPT ![r] =
                IF found
                THEN BeginNegotiate(q, [NoOpts EXCEPT !.systemPrompt = systemPrompt,
                                                      !.agentName = agentName,
                                                      !.firstSpeaker = "FIRST_SPEAKER_AGENT"])
                ELSE [Respond(q, ConnectApology) EXCEPT !.pc = "done"]]
    /\ UNCHANGED <<env, callPrompts, callAgentNames, putGen, initiated, unitVars>>

----------------------------------------------------------------------------
(* Inbound calls *)

InboundOpts == [NoOpts EXCEPT !.systemPrompt = INBOUND_SYSTEM_PROMPT, !.agentName = AI_NAME]

\* the handler's own corpus check (its result is only logged), else the negotiation
BeginInbound(q) ==
    IF env.ULTRAVOX_CORPUS_ID # ""
    THEN [q EXCEPT !.pc = "precheck_wait"]
    ELSE BeginNegotiate(q, InboundOpts)

\* /incoming with the Twilio provider
IncomingTwilio(r, c) ==
    /\ Arrives(r)
    /\ env.VOICE_PROVIDER # "telnyx"
    /\ reqs' = [reqs EXCEPT ![r] = BeginInbound([IdleReq EXCEPT !.h = "incoming", !.key = c])]
    /\ UNCHANGED <<env, callPrompts, callAgentNames, putGen, initiated, unitVars>>

\* "malformed" is a body without data; "nopayload" is a call.initiated or
\* call.answered event without its payload
TelnyxEvents == {"malformed", "nopayload", "call.initiated", "call.answered", "call.hangup"}

\* variant: a call.answered event is a no-op unless call.initiated came first
IncomingTelnyx_NeedsInitiated(r, ev, c) ==
    /\ Arrives(r)
    /\ env.VOICE_PROVIDER = "telnyx"
    /\ LET q == [IdleReq EXCEPT !.h = "incoming", !.ev = ev,
                                !.key = IF ev \in {"malformed", "nopayload"} THEN "" ELSE c]
       IN  reqs' = [reqs EXCEPT ![r] =
                CASE ev = "malformed" ->
                        [Respond(q, Json(400, "Malformed event")) EXCEPT !.pc = "done"]
                  [] ev = "nopayload" ->
                        [Respond(q, Json(500, "Failed to process incoming call"))
                            EXCEPT !.pc = "done"]
                  [] ev = "call.initiated" ->
                        [q EXCEPT !.answers = @ + 1, !.pc = "answer_wait"]
                  [] ev = "call.answered" /\ c \in initiated -> BeginInbound(q)
                  [] OTHER -> [Respond(q, Json(200, "")) EXCEPT !.pc = "done"]]
    /\ initiated' = IF ev = "call.initiated" THEN initiated \cup {c} ELSE initiated
    /\ UNCHANGED <<env, callPrompts, callAgentNames, putGen, unitVars>>

\* /incoming with the Telnyx provider
IncomingTelnyx(r, ev, c) ==
    /\ Arrives(r)
    /\ env.VOICE_PROVIDER = "telnyx"
    /\ LET q == [IdleReq EXCEPT !.h = "incoming", !.ev = ev,
                                !.key = IF ev \in {"malformed", "nopayload"} THEN "" ELSE c]
       IN  reqs' = [reqs EXCEPT ![r] =
                CASE ev = "malformed" ->
                        [Respond(q, Json(400, "Malformed event")) EXCEPT !.pc = "done"]
                  [] ev = "nopayload" ->
                        [Respond(q, Json(500, "Failed to process incoming call"))
                            EXCEPT !.pc = "done"]
                  [] ev = "call.initiated" ->
                        [q EXCEPT !.answers = @ + 1, !.pc = "answer_wait"]
                  [] ev = "call.answered" -> BeginInbound(q)
                  [] OTHER -> [Respond(q, Json(200, "")) EXCEPT !.pc = "done"]]
    /\ initiated' = IF ev = "call.initiated" THEN initiated \cup {c} ELSE initiated
    /\ UNCHANGED <<env, callPrompts, callAgentNames, putGen, unitVars>>

\* verifyCorpusStatus() of the handler settles: corpusReady is logged, nothing else
PrecheckReply(r) ==
    /\ reqs[r].pc = "precheck_wait"
    /\ reqs' = [reqs EXCEPT ![r] = BeginNegotiate(reqs[r], InboundOpts)]
    /\ UNCHANGED <<env, callPrompts, callAgentNames, putGen, initiated, unitVars>>

\* /telnyx-webhook: acknowledges at once, the commands go on as promise chains
WebhookStart(r, ev, c) ==
    /\ Arrives(r)
    /\ LET q == Respond([IdleReq EXCEPT !.h = "webhook", !.ev = ev,
                                        !.key = IF ev \in {"malformed", "nopayload"} THEN "" ELSE c],
                        Json(200, ""))
       IN  reqs' = [reqs EXCEPT ![r] =
                CASE ev = "call.initiated" ->
                        [q EXCEPT !.answers = @ + 1, !.pc = "answer_wait"]
                  [] ev = "call.answered" -> BeginNegotiate(q, InboundOpts)
                  [] OTHER -> [q EXCEPT !.pc = "done"]]
    /\ initiated' = IF ev = "call.initiated" THEN initiated \cup {c} ELSE initiated
    /\ UNCHANGED <<env, callPrompts, callAgentNames, putGen, unitVars>>

\* the provider answers the answer command
AnswerReply(r) ==
    /\ reqs[r].pc = "answer_wait"
    /\ reqs' = [reqs EXCEPT ![r] =
            IF reqs[r].h = "incoming"
            THEN [Respond(reqs[r], Json(200, "Call initiated and answer command sent"))
                    EXCEPT !.pc = "done"]
            ELSE [reqs[r] EXCEPT !.pc = "done"]]
    /\ UNCHANGED <<env, callPrompts, callAgentNames, putGen, initiated, unitVars>>

StreamResults == {"ok", "422", "error"}

\* the provider answers the streaming_start command
StreamReply(r) ==
    /\ reqs[r].pc = "stream_wait"
    /\ \E result \in StreamResults :
          reqs' = [reqs EXCEPT ![r] = FinishStreaming([reqs[r] EXCEPT !.streamResult = result])]
    /\ UNCHANGED <<env, callPrompts, callAgentNames, putGen, initiated, unitVars>>

----------------------------------------------------------------------------
(* Outbound calls: /outgoing *)

\* variant: only the destination number is validated
OutgoingValidation_DestinationOnly(body) ==
    IF body.destinationNumber = "" THEN Json(400, "Destination phone number is required")
    ELSE NoRes

\* the checks before the try block's first await: the rejection, or NoRes
OutgoingValidation(body) ==
    CASE body.destinationNumber = "" -> Json(400, "Destination phone number is required")
      [] body.destinationNumber # "" /\ env.VOICE_PROVIDER = "telnyx" /\ ~env.TELNYX_CONFIGURED
            -> Json(500, "Telnyx credentials not properly configured")
      [] body.destinationNumber # "" /\ env.VOICE_PROVIDER # "telnyx" /\ ~env.TWILIO_CONFIGURED
            -> Json(500, "Twilio credentials not properly configured")
      [] OTHER -> NoRes

OutgoingOpts(body) ==
    [NoOpts EXCEPT !.systemPrompt = body.systemPrompt, !.isOutbound = TRUE,
                   !.voiceId = body.voiceId, !.corpusId = body.corpusId,
                   !.toolNames = body.tools, !.agentName = body.agentName]

OutgoingStart(r, body) ==
    /\ Arrives(r)
    /\ LET q == [IdleReq EXCEPT !.h = "outgoing", !.dest = body.destinationNumber]
           rejection == OutgoingValidation(body)
       IN  reqs' = [reqs EXCEPT ![r] =
                IF rejection # NoRes
                THEN [Respond(q, rejection) EXCEPT !.pc = "done"]
                ELSE BeginNegotiate(q, OutgoingOpts(body))]
    /\ UNCHANGED <<env, callPrompts, callAgentNames, putGen, initiated, unitVars>>

\* what the provider answers to the origination: a call with its id, a
\* response without an id, or a failure
OriginateResults == {"ok", "noid", "error"}

\* the rest of the handler after the origination settled
AfterOriginate(q) ==
    IF q.callResult = "error" \/ (q.callResult = "noid" /\ env.VOICE_PROVIDER = "telnyx")
    THEN [Respond(q, Json(500, "Failed to initiate call")) EXCEPT !.pc = "done"]
    ELSE [Respond(q, Json(200, "Call initiated successfully")) EXCEPT !.pc = "done"]

OriginateReply(r) ==
    /\ reqs[r].pc = "originate_wait"
    /\ \E result \in OriginateResults :
          reqs' = [reqs EXCEPT ![r] = AfterOriginate([reqs[r] EXCEPT !.callResult = result])]
    /\ UNCHANGED <<env, callPrompts, callAgentNames, putGen, initiated, unitVars>>

----------------------------------------------------------------------------
(* Environments and inputs *)

\* the process environment, and what the remote services may answer in it
EnvOf(provider, useTools, callTools, guidelines, corpus, permanent, sessionReplies, corpusReplies) ==
    [sessionReplies |-> sessionReplies,
     corpusReplies |-> corpusReplies,
     VOICE_PROVIDER |-> provider,
     ULTRAVOX_USE_TOOLS |-> useTools,
     ULTRAVOX_CALL_TOOLS |-> callTools,
     ULTRAVOX_TOOL_GUIDELINES |-> guidelines,
     ULTRAVOX_CORPUS_ID |-> corpus,
     ULTRAVOX_USE_PERMANENT_TOOLS |-> permanent,
     ULTRAVOX_TOOLS_TO_REGISTER |-> None,
     TWILIO_CONFIGURED |-> TRUE,    \* TWILIO_AUTH_TOKEN and TWILIO_PHONE_NUMBER are set
     TELNYX_CONFIGURED |-> TRUE,    \* TELNYX_API_KEY, TELNYX_PHONE_NUMBER, TELNYX_APP_ID are set
     OUTBOUND_FIRST_SPEAKER |-> "FIRST_SPEAKER_USER",
     INBOUND_FIRST_SPEAKER |-> "FIRST_SPEAKER_AGENT"]

\* ULTRAVOX_CALL_TOOLS as the items between its commas: unset, "", "t1", "t2,,t1", "zz"
CallToolsValues == {None, Some(<<"">>), Some(<<"t1">>), Some(<<"t2", "", "t1">>), Some(<<"zz">>)}

NegEnvs == {EnvOf("twilio", u, ct, g, c, p, SessionReplies, CorpusReplies) :
                u \in {"", "true", "false"}, ct \in CallToolsValues,
                g \in {"", "be brief"}, c \in {"", "G"}, p \in {"", "true"}}

ToolNameFilters == {None, Some(<<>>), Some(<<"t1">>), Some(<<"t2", "t1">>), Some(<<"zz">>)}

CallOptions ==
    {[systemPrompt |-> sp, isOutbound |-> ob, voiceId |-> vo, corpusId |-> co,
      toolNames |-> tn, agentName |-> an, firstSpeaker |-> ""] :
        sp \in {<<>>, << <<"txt", "custom">>, <<"ph", "AI_NAME">> >>},
        ob \in BOOLEAN, vo \in {"", "v2"}, co \in {"", "X"},
        tn \in ToolNameFilters, an \in {"", "Ann"}}

\* a direct call of createUltravoxCall(options)
CallStart(opts) ==
    /\ reqs[1].pc = "idle"
    /\ reqs' = [reqs EXCEPT ![1] = BeginNegotiate([IdleReq EXCEPT !.h = "call"], opts)]
    /\ UNCHANGED <<env, callPrompts, callAgentNames, putGen, initiated, unitVars>>

T1Slot == [NoSlot EXCEPT !.NAME = "t1", !.DESCRIPTION = "d1", !.EXAMPLES = JsonText(1),
                         !.PARAMS = JsonText(1)]
T2Slot == [NoSlot EXCEPT !.NAME = "t2", !.DESCRIPTION = "d2", !.RESPONSE_SCHEMA = JsonText(0)]

\* the server's tool configuration: two tools in the first slots
StandardSlots == [i \in 1..MaxSlots |-> IF i = 1 THEN T1Slot ELSE IF i = 2 THEN T2Slot ELSE NoSlot]

NoLookup == [fn |-> "", toolNames |-> None, result |-> <<>>]
NoSetup == [pc |-> "idle", todo |-> <<>>, results |-> <<>>, replies |-> <<>>]
NoComposed == [prompt |-> <<>>, agentName |-> "", applied |-> 0, once |-> <<>>, twice |-> <<>>]
NoStream == [state |-> "none", active |-> FALSE, sent |-> <<>>, frames |-> <<>>,
             replies |-> <<>>, webhooks |-> <<>>]

\* the server after its start, before any request
InitServer(envs) ==
    /\ env \in envs
    /\ callPrompts = UndefinedPrompts
    /\ callAgentNames = UndefinedNames
    /\ reqs = [r \in Reqs |-> IdleReq]
    /\ putGen = [k \in Keys |-> 0]
    /\ initiated = {}

InitWith(envs) ==
    /\ InitServer(envs)
    /\ loader = LoadTools(StandardSlots)
    /\ looked = NoLookup
    /\ setup = NoSetup
    /\ composed = NoComposed
    /\ stream = NoStream

\* the negotiator called with every combination of options, in every environment
Init == InitWith(NegEnvs)

Next ==
    \/ \E opts \in CallOptions : CallStart(opts)
    \/ \E r \in Reqs : CorpusReply(r)
    \/ \E r \in Reqs : SessionReply(r)

Spec == Init /\ [][Next]_vars

\* the negotiator called with filters that repeat a name or name a built-in
\* capability, with temporary and with permanent tools
FilterEnvs == {EnvOf("twilio", "", None, g, c, p, {"ok", "neterr"}, {"READY", "NETERR"}) :
                  g \in {"", "be brief"}, c \in {"", "G"}, p \in {"", "true"}}

RepeatingFilters ==
    {None, Some(<<"t1", "t1">>), Some(<<"t1", "t2">>), Some(<<"hangUp">>),
     Some(<<"queryCorpus", "t2">>)}

FilterOptions ==
    {[NoOpts EXCEPT !.systemPrompt = sp, !.toolNames = tn] :
        sp \in {<<>>, << <<"txt", "custom">> >>}, tn \in RepeatingFilters}

InitFilters == InitWith(FilterEnvs)

NextFilters ==
    \/ \E opts \in FilterOptions : CallStart(opts)
    \/ CorpusReply(1)
    \/ SessionReply(1)

SpecFilters == InitFilters /\ [][NextFilters]_vars

\* deferred connect: stored contexts and concurrent /direct-connect requests
FirstSpeakers == {"FIRST_SPEAKER_AGENT", "FIRST_SPEAKER_USER"}
ConnectEnvs ==
    {[EnvOf("twilio", "false", None, "", "", "", SessionReplies, {"READY"})
        EXCEPT !.INBOUND_FIRST_SPEAKER = fs] : fs \in FirstSpeakers}

InitConnect == InitWith(ConnectEnvs)

NextConnect ==
    \/ \E k \in Keys, p \in StoredPrompts, a \in PersonaNames : Put(k, p, a)
    \/ \E r \in Reqs, k \in Keys : ConnectStart(r, k)
    \/ \E r \in Reqs : SessionReply(r)

SpecConnect == InitConnect /\ [][NextConnect]_vars

\* inbound calls of both providers, delivered concurrently
InboundEnvs ==
    {EnvOf("twilio", "false", None, "", c, "", SessionReplies, {"READY", "MALFORMED"}) : c \in {"", "G"}}
    \cup {EnvOf("telnyx", "false", None, "", c, "", {"ok", "html", "neterr"}, {"READY", "NETERR"}) : c \in {"", "G"}}

InitInbound == InitWith(InboundEnvs)

NextInbound ==
    \/ \E r \in Reqs, c \in CallIds : IncomingTwilio(r, c)
    \/ \E r \in Reqs, ev \in TelnyxEvents, c \in CallIds : IncomingTelnyx(r, ev, c)
    \/ \E r \in Reqs, ev \in TelnyxEvents, c \in CallIds : WebhookStart(r, ev, c)
    \/ \E r \in Reqs : PrecheckReply(r)
    \/ \E r \in Reqs : CorpusReply(r)
    \/ \E r \in Reqs : SessionReply(r)
    \/ \E r \in Reqs : AnswerReply(r)
    \/ \E r \in Reqs : StreamReply(r)

SpecInbound == InitInbound /\ [][NextInbound]_vars

\* one request at a time to any of the telephony-facing handlers
NextHandlers ==
    \/ \E k \in Keys, p \in StoredPrompts, a \in PersonaNames : Put(k, p, a)
    \/ \E k \in Keys : ConnectStart(1, k)
    \/ \E c \in CallIds : IncomingTwilio(1, c)
    \/ \E ev \in TelnyxEvents, c \in CallIds : IncomingTelnyx(1, ev, c)
    \/ \E ev \in TelnyxEvents, c \in CallIds : WebhookStart(1, ev, c)
    \/ PrecheckReply(1)
    \/ CorpusReply(1)
    \/ SessionReply(1)
    \/ AnswerReply(1)
    \/ StreamReply(1)

SpecHandlers == InitInbound /\ [][NextHandlers]_vars

\* /outgoing requests of both providers, with and without credentials
OutgoingEnvs ==
    {[EnvOf(p, "", None, "", c, "", {"ok", "html", "nojoin", "neterr"}, {"READY", "NETERR"})
        EXCEPT !.TWILIO_CONFIGURED = tw, !.TELNYX_CONFIGURED = tx] :
        p \in {"twilio", "telnyx"}, c \in {"", "G"}, tw \in BOOLEAN, tx \in BOOLEAN}

OutgoingBodies ==
    {[destinationNumber |-> d, systemPrompt |-> sp, voiceId |-> "", corpusId |-> "",
      tools |-> None, agentName |-> ""] :
        d \in {"", "+15550100"}, sp \in {<<>>, << <<"txt", "custom">> >>}}

InitOutgoing == InitWith(OutgoingEnvs)

NextOutgoing ==
    \/ \E r \in Reqs, body \in OutgoingBodies : OutgoingStart(r, body)
    \/ \E r \in Reqs : CorpusReply(r)
    \/ \E r \in Reqs : SessionReply(r)
    \/ \E r \in Reqs : OriginateReply(r)

SpecOutgoing == InitOutgoing /\ [][NextOutgoing]_vars

----------------------------------------------------------------------------
(* The registry loaded from the tool slots, and lookups in it *)

T1bSlot == [T1Slot EXCEPT !.DESCRIPTION = "d1b", !.EXAMPLES = Unset]
SlotValues ==
    {NoSlot, T1Slot, T2Slot, T1bSlot,
     [T1Slot EXCEPT !.RESPONSE_SCHEMA = Malformed],
     [T2Slot EXCEPT !.EXAMPLES = Malformed],
     [T2Slot EXCEPT !.PARAMS = Malformed]}
SlotConfigs == [1..MaxSlots -> SlotValues]

Unloaded(slots) == [slots |-> slots, state |-> "unloaded", tools |-> <<>>]

\* config/tools.js is evaluated when it is first imported
ModuleLoad ==
    /\ loader.state = "unloaded"
    /\ loader' = LoadTools(loader.slots)
    /\ UNCHANGED <<env, callPrompts, callAgentNames, reqs, putGen, initiated,
                   looked, setup, composed, stream>>

LookupNames == {"t1", "t2", "zz"}
LookupFilters == {None} \cup {Some(f) : f \in SeqsUpTo(LookupNames, MaxFilterLen)}

\* a call of one of the two lookup functions of the tool manager
Lookup(fn, toolNames) ==
    /\ loader.state = "loaded"
    /\ looked' = [fn |-> fn, toolNames |-> toolNames,
                  result |-> IF fn = "getToolsByName" THEN getToolsByName(toolNames)
                                                      ELSE getTemporaryTools(toolNames)]
    /\ UNCHANGED <<env, callPrompts, callAgentNames, reqs, putGen, initiated,
                   loader, setup, composed, stream>>

InitTools ==
    /\ InitServer(ConnectEnvs)
    /\ loader \in {Unloaded(slots) : slots \in SlotConfigs}
    /\ looked = NoLookup
    /\ setup = NoSetup
    /\ composed = NoComposed
    /\ stream = NoStream

NextTools ==
    \/ ModuleLoad
    \/ \E fn \in {"getToolsByName", "getTemporaryTools"}, f \in LookupFilters : Lookup(fn, f)

SpecTools == InitTools /\ [][NextTools]_vars

----------------------------------------------------------------------------
(* The media WebSocket channel: wss.on('connection') *)

\* a frame sent by the server; sequence numbers come from sequenceCounter
Frame(event, name, seq) == [event |-> event, name |-> name, seq |-> seq]

\* a received message: text that is not JSON, the JSON value null, or a JSON
\* object with its event, whether it has media.payload, and its mark.name
Received(json, event, payload, name) ==
    [json |-> json, event |-> event, payload |-> payload, name |-> name]

WsFrames ==
    {Received("unparsable", "", FALSE, ""), Received("null", "", FALSE, ""),
     Received("object", "media", TRUE, ""), Received("object", "media", FALSE, ""),
     Received("object", "mark", FALSE, "m1"), Received("object", "mark", FALSE, "m2"),
     Received("object", "mark", FALSE, ""),
     Received("object", "clear", FALSE, ""), Received("object", "dtmf", FALSE, ""),
     Received("object", "other", FALSE, "")}

\* sequenceCounter: one more than the numbered frames sent so far
NumberedSent(sent) == Cardinality({i \in 1..Len(sent) : sent[i].seq # 0})
SequenceCounter == NumberedSent(stream.sent) + 1

\* variant: every frame that parses is acknowledged
WsReply_AckAll(m, seq) ==
    IF m.json # "object"
    THEN << Frame("error", "malformed_frame", 0) >>
    ELSE << Frame("ack", "", seq) >>

\* the frames the message handler sends for one received message
WsReply(m, seq) ==
    CASE m.json # "object" -> << Frame("error", "malformed_frame", 0) >>
      [] m.json = "object" /\ m.event = "media" ->
            IF m.payload THEN << Frame("ack", "", seq) >> ELSE <<>>
      [] m.json = "object" /\ m.event = "mark" ->
            IF m.name # "" THEN << Frame("mark", m.name, seq) >> ELSE <<>>
      [] m.json = "object" /\ m.event = "clear" -> << Frame("cleared", "", seq) >>
      [] OTHER -> <<>>

\* a client connects: 'connected' and 'start' are sent, streaming.started is posted
WsConnect ==
    /\ stream.state = "none"
    /\ stream' = [stream EXCEPT !.state = "open", !.active = TRUE,
                                !.sent = << Frame("connected", "", 0),
                                            Frame("start", "", SequenceCounter) >>,
                                !.webhooks = <<"streaming.started">>]
    /\ UNCHANGED <<env, callPrompts, callAgentNames, reqs, putGen, initiated,
                   loader, looked, setup, composed>>

\* ws.on('message')
WsMessage(m) ==
    /\ stream.state = "open"
    /\ Len(stream.frames) < MaxFrames
    /\ LET replies == WsReply(m, SequenceCounter)
       IN  stream' = [stream EXCEPT !.frames = Append(@, m),
                                    !.replies = Append(@, replies),
                                    !.sent = @ \o replies]
    /\ UNCHANGED <<env, callPrompts, callAgentNames, reqs, putGen, initiated,
                   loader, looked, setup, composed>>

\* ws.on('close'): the client closed the connection
WsClose ==
    /\ stream.state = "open"
    /\ stream' = [stream EXCEPT !.state = "closed", !.active = FALSE,
                                !.webhooks = Append(@, "streaming.stopped")]
    /\ UNCHANGED <<env, callPrompts, callAgentNames, reqs, putGen, initiated,
                   loader, looked, setup, composed>>

InitStream ==
    /\ InitServer(InboundEnvs)
    /\ loader = LoadTools(StandardSlots)
    /\ looked = NoLookup
    /\ setup = NoSetup
    /\ composed = NoComposed
    /\ stream = NoStream

NextStream ==
    \/ WsConnect
    \/ \E m \in WsFrames : WsMessage(m)
    \/ WsClose

SpecStream == InitStream /\ [][NextStream]_vars

----------------------------------------------------------------------------
(* The tool setup script: scripts/setup-tools.js *)

\* what the backend answers to POST /tools: created, already exists, rejected,
\* or no response at all
RegisterReplies == {"201", "409", "400", "neterr"}

\* axios rejects when there is no response; validateStatus: null makes it
\* resolve for every status
AxiosRejects(reply) == reply = "neterr"
\* error.response of the rejection
HasResponse(reply) == reply # "neterr"

\* registerTool once the request settled: what it logs and what it returns
registerTool(reply) ==
    IF ~AxiosRejects(reply)
    THEN [logged |-> "success", returns |-> "data"]
    ELSE IF HasResponse(reply) /\ reply = "409"
         THEN [logged |-> "exists", returns |-> "exists"]
         ELSE [logged |-> "error", returns |-> "null"]

\* the names of the loop that have no tool are skipped with a warning
RECURSIVE SkipUnknown(_)
SkipUnknown(names) ==
    IF names = <<>> \/ HasTool(Head(names)) THEN names ELSE SkipUnknown(Tail(names))

AwaitNext(s, names) ==
    LET todo == SkipUnknown(names)
    IN  [s EXCEPT !.todo = todo, !.pc = IF todo = <<>> THEN "done" ELSE "register_wait"]

\* setupTools up to its first await
SetupStart ==
    /\ loader.state = "loaded"
    /\ setup.pc = "idle"
    /\ LET toolsToSetup == IF env.ULTRAVOX_TOOLS_TO_REGISTER.def
                           THEN env.ULTRAVOX_TOOLS_TO_REGISTER.v
                           ELSE RegistryNames
       IN  setup' = AwaitNext(setup, toolsToSetup)
    /\ UNCHANGED <<env, callPrompts, callAgentNames, reqs, putGen, initiated,
                   loader, looked, composed, stream>>

\* the request of registerTool settles and the loop goes on
RegisterReply ==
    /\ setup.pc = "register_wait"
    /\ \E reply \in RegisterReplies :
          setup' = AwaitNext([setup EXCEPT !.results = Append(@, registerTool(reply)),
                                           !.replies = Append(@, reply)],
                             Tail(setup.todo))
    /\ UNCHANGED <<env, callPrompts, callAgentNames, reqs, putGen, initiated,
                   loader, looked, composed, stream>>

ToolsToRegister == {None, Some(<<"t1">>), Some(<<"t2", "zz", "t1">>)}
SetupEnvs == {[e EXCEPT !.ULTRAVOX_TOOLS_TO_REGISTER = v] : e \in ConnectEnvs, v \in ToolsToRegister}

InitSetup ==
    /\ InitServer(SetupEnvs)
    /\ loader \in {Unloaded(slots) : slots \in [1..MaxSlots -> {NoSlot, T1Slot, T2Slot}]}
    /\ looked = NoLookup
    /\ setup = NoSetup
    /\ composed = NoComposed
    /\ stream = NoStream

NextSetup ==
    \/ ModuleLoad
    \/ SetupStart
    \/ RegisterReply

SpecSetup == InitSetup /\ [][NextSetup]_vars

----------------------------------------------------------------------------
(* The persona transform applied to a prompt, and again to its result *)

PromptTokens == {<<"txt", "a">>, <<"ph", "AI_NAME">>, <<"ph", "AGENT_NAME">>}
Prompts == SeqsUpTo(PromptTokens, MaxPromptLen)
AgentNames == {"", "Ann", "{AI_NAME}", "$&"}

ApplyPersona ==
    /\ composed.applied < 2
    /\ composed' = IF composed.applied = 0
                   THEN [composed EXCEPT !.applied = 1,
                            !.once = processSystemPrompt(composed.prompt, composed.agentName)]
                   ELSE [composed EXCEPT !.applied = 2,
                            !.twice = processSystemPrompt(composed.once, composed.agentName)]
    /\ UNCHANGED <<env, callPrompts, callAgentNames, reqs, putGen, initiated,
                   loader, looked, setup, stream>>

InitPersona ==
    /\ InitServer(ConnectEnvs)
    /\ loader = LoadTools(StandardSlots)
    /\ looked = NoLookup
    /\ setup = NoSetup
    /\ composed \in {[NoComposed EXCEPT !.prompt = p, !.agentName = n] :
                        p \in Prompts, n \in AgentNames}
    /\ stream = NoStream

NextPersona == ApplyPersona

SpecPersona == InitPersona /\ [][NextPersona]_vars

----------------------------------------------------------------------------
(* Properties *)

Connects == {r \in Reqs : reqs[r].h = "connect"}
TelnyxRequests ==
    {r \in Reqs : \/ reqs[r].h = "webhook"
                  \/ reqs[r].h = "incoming" /\ env.VOICE_PROVIDER = "telnyx"}
Negotiated == {r \in Reqs : reqs[r].submitted}

ToolsOf(r) == reqs[r].cfg.selectedTools
PromptOf(r) == reqs[r].cfg.systemPrompt
HasQueryCorpus(r) == \E i \in 1..Len(ToolsOf(r)) : ToolsOf(r)[i].name = "queryCorpus"
HasHangUp(r) == \E i \in 1..Len(ToolsOf(r)) : ToolsOf(r)[i] = HangUpTool
HasRegistryTool(r) == \E i \in 1..Len(ToolsOf(r)) : HasTool(ToolsOf(r)[i].name)
TokenKinds(p) == {p[i][1] : i \in 1..Len(p)}
HasToolGuidance(r) == TokenKinds(PromptOf(r)) \cap {"desc", "example", "guidelines"} # {}
HasToolInstructions(r) == "instructions" \in TokenKinds(PromptOf(r))

\* C1: a stored context is consumed by at most one /direct-connect request: of
\* the requests that read the same stored prompt (same key, same put) at most
\* one creates a backend session and at most one answers with a stream
\* instruction.
C1_ConsumedAtMostOnce ==
    \A r1, r2 \in Connects :
        (/\ r1 # r2
         /\ reqs[r1].key = reqs[r2].key
         /\ reqs[r1].gen = reqs[r2].gen
         /\ reqs[r1].ctx = "found" /\ reqs[r2].ctx = "found")
        => /\ ~(reqs[r1].submitted /\ reqs[r2].submitted)
           /\ ~(reqs[r1].res.stream # 0 /\ reqs[r2].res.stream # 0)

\* C2: a /direct-connect request whose key has no stored context (never stored,
\* or consumed by an earlier successful request) requests no backend session
\* and is answered once, with the apologetic markup and no stream instruction.
C2_MissingContextFails ==
    \A r \in Connects :
        reqs[r].ctx \in {"never", "consumed"}
        => /\ ~reqs[r].submitted
           /\ reqs[r].pc = "done"
           /\ reqs[r].nres = 1
           /\ reqs[r].res = ConnectApology
           /\ reqs[r].res.say /\ reqs[r].res.stream = 0

\* a request misses the context that an earlier request for the same key consumed
C2_Witness ==
    \E r1, r2 \in Connects :
        /\ reqs[r1].key = reqs[r2].key /\ reqs[r1].gen = reqs[r2].gen
        /\ reqs[r1].pc = "done" /\ reqs[r1].res.stream # 0
        /\ reqs[r2].pc = "done" /\ reqs[r2].ctx = "consumed"

\* C3: with the Twilio provider, an /incoming request whose negotiation failed
\* (HTML page, unparsable body, no join URL, transport error) is answered with
\* status 200 and a markup document that speaks an apology and has no stream.
C3_TwilioInboundFailureApologises ==
    \A r \in Reqs :
        (reqs[r].h = "incoming" /\ env.VOICE_PROVIDER # "telnyx" /\ reqs[r].err # "")
        => /\ reqs[r].pc = "done"
           /\ reqs[r].nres = 1
           /\ reqs[r].res.status = 200
           /\ reqs[r].res.kind = "twiml"
           /\ reqs[r].res.say
           /\ reqs[r].res.stream = 0

C3_Witness ==
    \E r \in Reqs :
        /\ reqs[r].h = "incoming" /\ env.VOICE_PROVIDER = "twilio"
        /\ reqs[r].submitted
        /\ reqs[r].err = "Received HTML error page from Ultravox API"
        /\ reqs[r].res.say

\* C4: a Telnyx call.answered event whose call id has had no call.initiated
\* event is handled in full: a session is requested, with a join URL the
\* start-streaming command is issued for it, and no error is reported unless
\* the negotiation itself failed.
C4_AnsweredWithoutInitiated ==
    \A r \in TelnyxRequests :
        (reqs[r].ev = "call.answered" /\ reqs[r].key \notin initiated)
        => /\ reqs[r].pc \in {"stream_wait", "done"} => reqs[r].submitted
           /\ reqs[r].joinUrl # 0 => reqs[r].streams = 1 /\ reqs[r].streamUrl = reqs[r].joinUrl
           /\ reqs[r].nres = 1 => (reqs[r].res.status = 200 \/ reqs[r].err # "")

C4_Witness ==
    \E r \in TelnyxRequests :
        /\ reqs[r].h = "incoming" /\ reqs[r].ev = "call.answered"
        /\ reqs[r].key \notin initiated
        /\ reqs[r].pc = "done" /\ reqs[r].streams = 1
        /\ reqs[r].res.status = 200

C7_CorpusOnlyWhenCheckReady ==
    \A r \in Reqs :
        (EffectiveCorpusId(reqs[r].opts) # "" /\ reqs[r].pc \in {"session_wait", "done"})
        => /\ reqs[r].submitted
           /\ reqs[r].chkId # ""
           /\ HasQueryCorpus(r) <=> reqs[r].chkReply = "READY"

C7_Witness ==
    \E r \in Reqs :
        /\ reqs[r].submitted /\ reqs[r].chkReply = "PENDING"
        /\ reqs[r].effId = "G" /\ ~HasQueryCorpus(r)
        /\ HasHangUp(r)

\* C8: the corpus that is gated is the effective corpus of the call: the
\* reference is attached exactly when the effective corpus (the override when
\* given, else the global default) is ready, and it carries that id.
C8_GatesEffectiveCorpus ==
    \A r \in Negotiated :
        reqs[r].effId # ""
        => /\ HasQueryCorpus(r) <=> reqs[r].effReply = "READY"
           /\ \A i \in 1..Len(ToolsOf(r)) :
                 ToolsOf(r)[i].name = "queryCorpus" => ToolsOf(r)[i].corpus_id = reqs[r].effId

\* C9: with an empty tool-name filter the submitted request has no registry
\* tool and no end-call capability, and it has the queryCorpus reference
\* exactly when a corpus is configured for the call and that corpus is ready.
C9_ToolsOffCorpusIndependent ==
    \A r \in Negotiated :
        reqs[r].opts.toolNames = Some(<<>>)
        => /\ ~HasRegistryTool(r)
           /\ ~HasHangUp(r)
           /\ HasQueryCorpus(r) <=> (reqs[r].effId # "" /\ reqs[r].effReply = "READY")

\* C10: when the tool sequence of the submitted request is empty, the prompt
\* has no tool-guidance block (descriptions, examples, guidelines) and no
\* operational-guidance block.
C10_NoToolsNoGuidance ==
    \A r \in Negotiated :
        Len(ToolsOf(r)) = 0 => ~HasToolGuidance(r) /\ ~HasToolInstructions(r)

IsRegistryTool(t) == HasTool(t.name)
ToolName(t) == t.name
\* the names of the registry tools of the submitted request, in their order
RegistryToolNames(r) == SeqMap(ToolName, SelectSeq(ToolsOf(r), IsRegistryTool))
StartsWith(p, prefix) == Len(p) >= Len(prefix) /\ SubSeq(p, 1, Len(prefix)) = prefix

OutboundDefaults == {r \in Negotiated : reqs[r].opts = [NoOpts EXCEPT !.isOutbound = TRUE]}

\* C11: an outbound negotiation without overrides submits the default outbound
\* prompt (under the default persona), the default voice, the default
\* temperature and the outbound first speaker; it has the end-call reference
\* exactly when the global tool flag is "true", no registry tool when the flag
\* is not "true", and with the flag "true" the tools of the default tool list.
C11_OutboundDefaults ==
    \A r \in OutboundDefaults :
        /\ StartsWith(PromptOf(r), processSystemPrompt(OUTBOUND_SYSTEM_PROMPT, ""))
        /\ reqs[r].cfg.voice = AI_VOICE
        /\ reqs[r].cfg.temperature = AI_TEMPERATURE
        /\ reqs[r].cfg.firstSpeaker = env.OUTBOUND_FIRST_SPEAKER
        /\ HasHangUp(r) <=> env.ULTRAVOX_USE_TOOLS = "true"
        /\ env.ULTRAVOX_USE_TOOLS # "true" => ~HasRegistryTool(r)
        /\ (env.ULTRAVOX_USE_TOOLS = "true" /\ ~env.ULTRAVOX_CALL_TOOLS.def)
              => RegistryToolNames(r) = RegistryNames
        /\ (env.ULTRAVOX_USE_TOOLS = "true" /\ Len(CallToolsOrEmpty) > 0)
              => RegistryToolNames(r) = SelectSeq(CallToolsOrEmpty, HasTool)

HangUpCount(r) == Cardinality({i \in 1..Len(ToolsOf(r)) : ToolsOf(r)[i] = HangUpTool})

Preamble(name) ==
    << <<"txt", "Your name is">>, <<"name", name>>, <<"txt", "adhere to the following prompt:">> >>
EffectiveName(opts) == IF opts.agentName # "" THEN opts.agentName ELSE AI_NAME
GuidanceKinds == {"desc", "example", "guidelines", "instructions"}

HasPlaceholder(p) == \E i \in 1..Len(p) : p[i] = <<"ph", "AI_NAME">>

\* C14: for every prompt p and persona name n, the second application of the
\* persona transform gives the preamble for n, the separator and the result
\* of the first application (two stacked preambles), and neither result has a
\* persona-name placeholder left.
C14_StackedNoPlaceholder ==
    /\ composed.applied >= 1 => ~HasPlaceholder(composed.once)
    /\ composed.applied = 2
          => /\ composed.twice = Preamble(EffectiveName(composed))
                                   \o << <<"txt", "\n\n">> >> \o composed.once
             /\ ~HasPlaceholder(composed.twice)

\* C15: a lookup with a list F of names returns the registry entries named in
\* F, in the order of F, without the names that are not registered; a lookup
\* without F returns the whole registry in registry order; for both lookup
\* functions.
C15_LookupFollowsFilter ==
    looked.fn # ""
    => SeqMap(ToolName, looked.result)
          = IF looked.toolNames.def THEN SelectSeq(looked.toolNames.v, HasTool)
                                    ELSE RegistryNames

\* C17: when a slot has a malformed JSON-valued variable, the load completes
\* and registers the other, well-formed slots; it does not crash.
WellFormed(slot) == parseToolFromEnv(slot).kind # "throws"
WithoutMalformed(slots) == [i \in 1..Len(slots) |-> IF WellFormed(slots[i]) THEN slots[i] ELSE NoSlot]
C17_MalformedSlotFailsAlone ==
    (loader.state # "unloaded" /\ \E i \in 1..Len(loader.slots) : ~WellFormed(loader.slots[i]))
    => /\ loader.state = "loaded"
       /\ loader.tools = LoadTools(WithoutMalformed(loader.slots)).tools

Settled == {r \in Reqs : reqs[r].reply # ""}

\* C16: a negotiation succeeds exactly when the body is not an HTML page, is
\* JSON and has a join URL; an HTML page, an unparsable body and a body
\* without join URL make it fail, the HTML page with another error than the
\* parse failure; a settled negotiation has either a join URL or an error.
C16_SucceedsIffJoinUrl ==
    \A r \in Settled :
        /\ reqs[r].joinUrl # 0 <=> reqs[r].reply = "ok"
        /\ reqs[r].joinUrl = 0 <=> reqs[r].err # ""
        /\ reqs[r].reply \in {"html", "htmlOther"} => reqs[r].err # "Failed to parse response"
        /\ reqs[r].reply = "unparsable" => reqs[r].err = "Failed to parse response"

DefaultFiltered == {r \in Negotiated : ~reqs[r].opts.toolNames.def /\ UseTools(reqs[r].opts)}

\* C19: with tools enabled and no per-call filter, an empty or unset
\* ULTRAVOX_CALL_TOOLS selects every registered tool, and for every value of
\* that list the reference mode and the inline mode select the same names in
\* the same order.
C19_EmptyListSelectsAll ==
    \A r \in DefaultFiltered :
        /\ Len(CallToolsOrEmpty) = 0 => RegistryToolNames(r) = RegistryNames
        /\ SeqMap(ToolName, getToolsByName(ToolNamesOrEnv(reqs[r].opts)))
              = SeqMap(ToolName, getTemporaryTools(ToolNamesOrEnv(reqs[r].opts)))

TelephonyRequests == {r \in Reqs : reqs[r].h \in {"incoming", "webhook", "connect"}}

\* a markup document (with a stream or with speech) for the Twilio-facing
\* handlers, a JSON acknowledgment or JSON error for the Telnyx-facing ones
ValidResponse(q) ==
    IF q.h = "connect" \/ (q.h = "incoming" /\ env.VOICE_PROVIDER # "telnyx")
    THEN /\ q.res.kind = "twiml" /\ q.res.status = 200
         /\ q.res.say <=> q.res.stream = 0
    ELSE q.res.kind = "json" /\ q.res.status \in {200, 400, 500}

C20_ExistingToolsSkipped ==
    \A i \in 1..Len(setup.results) :
        /\ setup.replies[i] = "409" => setup.results[i].returns = "exists"
        /\ setup.results[i].logged = "success" => setup.replies[i] = "201"

\* C21: on the WebSocket channel the server first sends 'connected' and then
\* 'start'; after that every received frame gets at most one reply, given by
\* its event: media with a payload one 'ack', a named mark one 'mark' with
\* that name, clear one 'cleared', DTMF and unknown events none, an
\* unparsable frame one 'error' (malformed_frame); the server does not close
\* the connection.
C21_FrameReplies ==
    /\ stream.state # "none"
          => /\ Len(stream.sent) >= 2
             /\ stream.sent[1].event = "connected" /\ stream.sent[2].event = "start"
             /\ Len(stream.sent) = 2 + Cardinality({i \in 1..Len(stream.replies) :
                                                       stream.replies[i] # <<>>})
    /\ stream.state = "closed" => stream.webhooks[Len(stream.webhooks)] = "streaming.stopped"
    /\ \A i \in 1..Len(stream.frames) :
          LET m == stream.frames[i]
              out == stream.replies[i]
          IN  /\ Len(out) <= 1
              /\ (m.json = "object" /\ m.event = "media" /\ m.payload)
                    => Len(out) = 1 /\ out[1].event = "ack"
              /\ (m.json = "object" /\ m.event = "mark" /\ m.name # "")
                    => Len(out) = 1 /\ out[1].event = "mark" /\ out[1].name = m.name
              /\ (m.json = "object" /\ m.event = "clear")
                    => Len(out) = 1 /\ out[1].event = "cleared"
              /\ (m.json = "object" /\ m.event \in {"dtmf", "other"}) => out = <<>>
              /\ m.json = "unparsable"
                    => /\ Len(out) = 1
                       /\ out[1].event = "error" /\ out[1].name = "malformed_frame"

\* an unparsable frame was answered with the error and a later mark is echoed
C21_Witness ==
    /\ stream.state = "open"
    /\ Len(stream.frames) = 2
    /\ stream.frames[1].json = "unparsable"
    /\ stream.frames[2].event = "mark" /\ stream.frames[2].name = "m2"
    /\ stream.sent[4] = Frame("mark", "m2", 2)

OutgoingRequests == {r \in Reqs : reqs[r].h = "outgoing"}

\* C22: an /outgoing request asks the provider to originate a call at most
\* once, only after its own negotiation gave a join URL, and with that join
\* URL as the stream target; when the negotiation failed no call is
\* originated and the request is answered with an error.
C22_OriginateOnceAfterJoinUrl ==
    \A r \in OutgoingRequests :
        /\ reqs[r].calls <= 1
        /\ reqs[r].calls = 1
              => /\ reqs[r].reply = "ok" /\ reqs[r].joinUrl = r
                 /\ reqs[r].callUrl = reqs[r].joinUrl
        /\ reqs[r].err # ""
              => /\ reqs[r].calls = 0 /\ reqs[r].pc = "done"
                 /\ reqs[r].nres = 1 /\ reqs[r].res.status = 500

\* two requests, one originated its call and one failed its negotiation
C22_Witness ==
    \E r, p \in OutgoingRequests :
        /\ reqs[r].calls = 1 /\ reqs[r].res.status = 200 /\ reqs[r].callUrl = r
        /\ reqs[p].err # "" /\ reqs[p].res.status = 500

\* the active provider's credentials are set
Configured ==
    IF env.VOICE_PROVIDER = "telnyx" THEN env.TELNYX_CONFIGURED ELSE env.TWILIO_CONFIGURED

\* nothing was asked of the corpus service, the backend or the provider
NoRemoteEffect(q) ==
    /\ q.cfg = NoCfg /\ ~q.submitted /\ q.reply = ""
    /\ q.chkId = "" /\ q.effId = "" /\ q.calls = 0

\* C29: an /outgoing request without a destination number is answered 400,
\* one with the active provider's credentials missing is answered 500, and
\* in both cases nothing was asked of the corpus service, the backend or the
\* provider.
C29_RejectedWithoutEffect ==
    \A r \in OutgoingRequests :
        /\ reqs[r].dest = ""
              => /\ reqs[r].pc = "done" /\ reqs[r].nres = 1
                 /\ reqs[r].res.status = 400 /\ NoRemoteEffect(reqs[r])
        /\ (reqs[r].dest # "" /\ ~Configured)
              => /\ reqs[r].pc = "done" /\ reqs[r].nres = 1
                 /\ reqs[r].res.status = 500 /\ NoRemoteEffect(reqs[r])

\* a corpus is configured, the credentials are missing, and a request with a
\* destination was rejected after one without
C29_Witness ==
    /\ ~Configured /\ env.ULTRAVOX_CORPUS_ID # ""
    /\ reqs[1].h = "outgoing" /\ reqs[1].res.status = 400
    /\ reqs[2].h = "outgoing" /\ reqs[2].dest # "" /\ reqs[2].res.status = 500

\* C23: the tool sequence of a submitted request has no two entries with the
\* same tool name, whatever tool-name filter the caller supplied.
C23_NoDuplicateToolNames ==
    \A r \in Negotiated :
        \A i, j \in 1..Len(ToolsOf(r)) :
            ToolsOf(r)[i].name = ToolsOf(r)[j].name => i = j

\* the requests that carried an event of the inbound call c
EventsOf(c) == {r \in TelnyxRequests : reqs[r].key = c}
SessionsOf(c) == {r \in EventsOf(c) : reqs[r].submitted}
StreamStartsOf(c) == {r \in EventsOf(c) : reqs[r].streams > 0}

\* C24: whatever 'call initiated' and 'call answered' events are delivered
\* for one inbound call, in whatever order and however often, at most one
\* backend session is requested and at most one start-streaming command is
\* sent for that call.
C24_OneSessionPerCall ==
    \A c \in CallIds :
        /\ Cardinality(SessionsOf(c)) <= 1
        /\ Cardinality(StreamStartsOf(c)) <= 1
        /\ \A r \in EventsOf(c) : reqs[r].streams <= 1

\* C26: the /incoming handler answers a 'call answered' event with the success
\* acknowledgment only if the provider accepted the start-streaming command.
C26_SuccessOnlyIfStreaming ==
    \A r \in Reqs :
        (/\ reqs[r].h = "incoming" /\ reqs[r].ev = "call.answered"
         /\ reqs[r].res.msg = "Call answered and streaming started")
            => reqs[r].streamResult = "ok"

\* the step in which the negotiation of the /direct-connect request r settles
ConnectSettles(r) ==
    /\ reqs[r].h = "connect" /\ reqs[r].pc = "session_wait"
    /\ reqs'[r].pc = "done"

SameEntry(k) ==
    /\ callPrompts'.m[k] = callPrompts.m[k]
    /\ callAgentNames'.m[k] = callAgentNames.m[k]

C25_Step ==
    \A r \in Reqs :
        ConnectSettles(r)
            => /\ reqs'[r].joinUrl = 0 => SameEntry(reqs[r].key)
               /\ \A k \in Keys \ {reqs[r].key} : SameEntry(k)
               /\ callPrompts'.def = callPrompts.def
               /\ callAgentNames'.def = callAgentNames.def

\* C25: when the negotiation of a /direct-connect request that found its
\* stored context fails, the stored prompt and persona name of its key stay
\* as they are (they are removed only once a join URL was obtained), and the
\* entries of other keys are never changed by the request.
C25_FailureKeepsContext == [][C25_Step]_vars

\* a request failed its negotiation and a later request for the same key and
\* the same stored context found it and connected, while the other key's
\* context stays stored
C25_Witness ==
    \E r1, r2 \in Connects :
        /\ r1 < r2 /\ reqs[r1].key = reqs[r2].key /\ reqs[r1].gen = reqs[r2].gen
        /\ reqs[r1].ctx = "found" /\ reqs[r1].err # "" /\ reqs[r1].res.say
        /\ reqs[r2].ctx = "found" /\ reqs[r2].res.stream # 0
        /\ \E k \in Keys \ {reqs[r1].key} : callPrompts.m[k] # <<>>

\* occurrences of the token in the prompt
Occurrences(p, token) == Cardinality({i \in 1..Len(p) : p[i] = token})
GuidelineCount(p) == Cardinality({i \in 1..Len(p) : p[i][1] = "guidelines"})
DescribedTools(p) == {p[i][2] : i \in {j \in 1..Len(p) : p[j][1] = "desc"}}

\* C27: the tool-guidance block is in the submitted prompt at most once: no
\* tool is described twice and the guideline text is not there twice,
\* whichever path built the prompt and whatever the tool settings are.
C27_GuidanceAtMostOnce ==
    \A r \in Negotiated :
        /\ GuidelineCount(PromptOf(r)) <= 1
        /\ \A name \in DescribedTools(PromptOf(r)) :
              Occurrences(PromptOf(r), <<"desc", name>>) = 1

\* C28: the tools described in the prompt of a submitted request are exactly
\* the registry tools of its tool sequence.
C28_GuidanceIffSelected ==
    \A r \in Negotiated :
        DescribedTools(PromptOf(r)) = Range(RegistryToolNames(r))

\* the first speaker of the call's direction
DirectionDefault(opts) ==
    IF opts.isOutbound THEN env.OUTBOUND_FIRST_SPEAKER ELSE env.INBOUND_FIRST_SPEAKER

\* C30: the first speaker of a submitted request is the one the caller of the
\* negotiator asked for, else the default of the call's direction; a session
\* created through deferred connect has the agent as first speaker whatever
\* the defaults are configured to.
C30_FirstSpeakerAsRequested ==
    \A r \in Negotiated :
        /\ reqs[r].cfg.firstSpeaker =
              IF reqs[r].opts.firstSpeaker # "" THEN reqs[r].opts.firstSpeaker
              ELSE DirectionDefault(reqs[r].opts)
        /\ reqs[r].h = "connect" => reqs[r].cfg.firstSpeaker = "FIRST_SPEAKER_AGENT"

====
